---- MODULE Spec2Model ----
(***************************************************************************)
(* Model of src/news/news.js: getNews fans one NewsAPI request out per     *)
(* configured source, merges the matching articles of the requests that    *)
(* succeed and hands reduceArticles(articles) to the caller's callback.    *)
(***************************************************************************)
EXTENDS Integers, Sequences, FiniteSets

\* ------------------------------------------------------------------ bounds
MaxSources == 2    \* sources.json holds at most this many descriptors
MaxEntries == 2    \* a response payload holds at most this many entries
MaxCap     == 2    \* config.maxArticlesStorageCap ranges over 0..MaxCap
MaxPriority == 2   \* config.sources holds at most this many source ids

\* ------------------------------------------------------------ JS values
\* The value of a property that an object does not have, and of a function
\* that falls off its end without a return statement.
Undefined == "undefined"

\* The value a JS call evaluates to: an array, or undefined.
Array(s) == [type |-> "array", items |-> s]
NoValue  == [type |-> "undefined"]

\* obj.name
Prop(obj, name) == IF name \in DOMAIN obj THEN obj[name] ELSE Undefined

\* ------------------------------------------------------- configuration
IdPool   == <<"a", "b", "c", "d">>
NamePool == <<"A", "B", "C", "D">>

\* One descriptor {id, name} of sources.json.
Source(n) == [id |-> IdPool[n], name |-> NamePool[n]]

\* sources.json: the first n descriptors.
SourceList(n) == [k \in 1..n |-> Source(k)]

\* Sequences without repetition, of length at most n, over the set S.
SeqsNoRep(S, n) ==
  {p \in UNION {[1..k -> S] : k \in 0..n} :
     \A i, j \in DOMAIN p : i # j => p[i] # p[j]}

\* The source ids a priority list is made of: those of the first two
\* descriptors, so that a third source is one the list never names.
PriorityIds == {Source(1).id, Source(2).id}

\* The priority lists config.sources ranges over.
PriorityLists == SeqsNoRep(PriorityIds, MaxPriority)

VARIABLES
  apiKey,        \* news.js:6   the credential is present
  sources,       \* news.js:8   sources.json
  maxArticles,   \* news.js:9   config.maxArticlesStorageCap
  configSources, \* news.js:113 config.sources, the priority list of source ids
  pc,            \* where the call getNews(phrase, callback) stands
  articles,      \* news.js:22  the merged list
  pending,       \* news.js:23  the completion counter
  query,         \* per source: the request and what it handed to the callback
  calls,         \* the arguments of every invocation of the caller's callback
  sent,          \* news.js:60  per source: the number of request(url) calls
  received,      \* per source: the (error, response) the request ended with
  other          \* a second call of getNews: its pc, articles, pending,
                 \* query and calls

vars == <<apiKey, sources, maxArticles, configSources, pc, articles, pending,
          query, calls, sent, received, other>>

config == <<apiKey, sources, maxArticles, configSources>>

\* ------------------------------------------------------------- Matcher
\* The texts of the modelled payloads: one the phrase matches, one it does not.
HitText  == "Election results announced"
MissText == "Weather today"

\* pattern.test(text) for the pattern newsUtils.generateFuzzyPattern(phrase)
\* builds: an opaque predicate over text.
PatternTest(text) == text = HitText

\* JS truthiness of a string-valued or absent property.
Truthy(v) == v # Undefined /\ v # ""

\* ------------------------------------------------------- Source Query
\* The entries a payload is built from: (title, description) pairs.
EntryKinds ==
  { [title |-> Undefined, description |-> HitText],
    [title |-> MissText,  description |-> Undefined] }

\* The k-th entry of the payload NewsAPI returns for source number i.
Entry(i, k, kind) ==
  [ title       |-> kind.title,
    description |-> kind.description,
    publishedAt |-> 1000 * k + 500,
    url         |-> <<IdPool[i], k>>,
    urlToImage  |-> Undefined ]

\* Every (title, description) pair of a text that matches, a text that does
\* not and an absent text.
WideEntryKinds ==
  [title : {Undefined, HitText, MissText},
   description : {Undefined, HitText, MissText}]

\* The ok payloads of source number i with entries of the given kinds.
PayloadsOver(i, kinds) ==
  { [status |-> "ok", articles |-> [k \in 1..n |-> Entry(i, k, ks[k])]] :
      ks \in [1..MaxEntries -> kinds], n \in 0..MaxEntries }

\* The payloads {status, articles} of source number i.
Payloads(i) ==
  { [status |-> "ok", articles |-> [k \in 1..n |-> Entry(i, k, ks[k])]] :
      ks \in [1..MaxEntries -> EntryKinds], n \in 0..MaxEntries }

\* new Date(publishedAt).getTime() / 1000: the quotient kept exact, as whole
\* seconds and the remaining milliseconds.
Timestamp(ms) == [sec |-> ms \div 1000, millis |-> ms % 1000]

\* Mutant of Matches: the description left out.
MatchesTitleOnly(entry) == Truthy(entry.title) /\ PatternTest(entry.title)

\* titleMatches || descriptionMatches
Matches(entry) ==
  \/ (Truthy(entry.title) /\ PatternTest(entry.title))
  \/ (Truthy(entry.description) /\ PatternTest(entry.description))

\* The article object pushed for a matching entry.
Article(source, entry) ==
  [ title       |-> entry.title,
    description |-> entry.description,
    timestamp   |-> Timestamp(entry.publishedAt),
    source      |-> source.name,
    link        |-> entry.url,
    media       |-> entry.urlToImage ]

RECURSIVE FilterEntries(_, _)
\* response.articles.forEach(...): the articles of the matching entries, in
\* payload order.
FilterEntries(source, entries) ==
  IF entries = <<>> THEN <<>>
  ELSE LET rest == FilterEntries(source, Tail(entries))
       IN IF Matches(Head(entries))
          THEN <<Article(source, Head(entries))>> \o rest
          ELSE rest

\* Mutant of searchForArticlesFromSource: the status check left out.
searchIgnoringStatus(source, outcome) ==
  IF Truthy(outcome.error)
  THEN [error |-> outcome.error, response |-> NoValue]
  ELSE [error |-> Undefined,
        response |-> Array(FilterEntries(source, outcome.body.articles))]

\* What the request callback of searchForArticlesFromSource hands to its own
\* callback, as (error, response), for the outcome of the HTTP request.
searchForArticlesFromSource(source, outcome) ==
  IF Truthy(outcome.error)
  THEN [error |-> outcome.error, response |-> NoValue]
  ELSE IF outcome.body.status # "ok"
  THEN [error |-> "NewsAPI returned status", response |-> NoValue]
  ELSE [error |-> Undefined,
        response |-> Array(FilterEntries(source, outcome.body.articles))]

\* ------------------------------------------------------------- Reducer
\* Mutant of PassThrough: the comparison made strict.
PassThroughStrict(arts) == Len(arts) < maxArticles

\* Mutant of PassThrough: the comparison off by one.
PassThroughOffByOne(arts) == Len(arts) <= maxArticles + 1

\* articles.length <= maxArticles
PassThrough(arts) == Len(arts) <= maxArticles

\* count === config.maxArticlesStorageCap
CapReached(count) == count = maxArticles

\* Mutant of SourceMatches: every article counts as the prioritized source's.
SourceMatchesAny(art, i) == TRUE

\* articles[j].id === config.sources[i]
SourceMatches(art, i) == Prop(art, "id") = configSources[i]

RECURSIVE PriorityWalk(_, _, _, _, _)
\* The nested loops of reduceArticles from (i, j) on, with the running count
\* and finalArticles; falling off the outer loop returns nothing.
PriorityWalk(arts, i, j, count, finalArticles) ==
  IF i > Len(configSources) THEN NoValue
  ELSE IF j > Len(arts) THEN PriorityWalk(arts, i + 1, 1, count, finalArticles)
  ELSE LET hit   == SourceMatches(arts[j], i)
           final == IF hit THEN Append(finalArticles, arts[j]) ELSE finalArticles
           cnt   == IF hit THEN count + 1 ELSE count
       IN IF CapReached(cnt) THEN Array(final)
          ELSE PriorityWalk(arts, i, j + 1, cnt, final)

reduceArticles(arts) ==
  IF PassThrough(arts) THEN Array(arts)
  ELSE PriorityWalk(arts, 1, 1, 0, <<>>)

\* ---------------------------------------------------------- Aggregator
NotSent == [state |-> "none", error |-> Undefined, response |-> NoValue]
InFlight == [state |-> "pending", error |-> Undefined, response |-> NoValue]
Settled(result) ==
  [state |-> "settled", error |-> result.error, response |-> result.response]

\* A call of getNews that has not been made yet.
NotCalled ==
  [pc |-> "idle", articles |-> <<>>, pending |-> 0,
   query |-> [i \in DOMAIN sources |-> NotSent], calls |-> <<>>]

\* No request outcome yet.
NoOutcome == [error |-> Undefined, body |-> NoValue]

Init ==
  /\ apiKey \in BOOLEAN
  /\ sources \in {SourceList(n) : n \in 0..MaxSources}
  /\ maxArticles \in 0..MaxCap
  /\ configSources \in PriorityLists
  /\ pc = "idle"
  /\ articles = <<>>
  /\ pending = 0
  /\ query = [i \in DOMAIN sources |-> NotSent]
  /\ calls = <<>>
  /\ sent = [i \in DOMAIN sources |-> 0]
  /\ received = [i \in DOMAIN sources |-> NoOutcome]
  /\ other = NotCalled

\* getNews with no API key: throws before anything else.
getNewsThrows ==
  /\ pc = "idle"
  /\ ~apiKey
  /\ pc' = "thrown"
  /\ UNCHANGED <<config, other, articles, pending, query, calls, sent, received>>

\* Mutant of getNews: the API key check left out.
getNewsUnchecked ==
  /\ pc = "idle"
  /\ articles' = <<>>
  /\ pending' = Len(sources)
  /\ query' = [i \in DOMAIN sources |-> InFlight]
  /\ sent' = [i \in DOMAIN sources |-> sent[i] + 1]
  /\ pc' = "dispatched"
  /\ UNCHANGED <<config, other, calls, received>>

\* getNews with an API key: initialises the merged list and the counter and
\* starts one request per source.
getNews ==
  /\ pc = "idle"
  /\ apiKey
  /\ articles' = <<>>
  /\ pending' = Len(sources)
  /\ query' = [i \in DOMAIN sources |-> InFlight]
  /\ sent' = [i \in DOMAIN sources |-> sent[i] + 1]
  /\ pc' = "dispatched"
  /\ UNCHANGED <<config, other, calls, received>>

\* Mutant of RespondNow: respond on every successful completion.
RespondNowEager(p) == TRUE

\* if (!pending) respond()
RespondNow(p) == p = 0

\* respond(): the callback's argument list grows by reduceArticles(articles).
respond(merged) == Append(calls, reduceArticles(merged))

\* Mutant of sourceCallback: pending decremented after the error return.
sourceCallbackCountsSuccess(i, result) ==
  /\ query' = [query EXCEPT ![i] = Settled(result)]
  /\ IF Truthy(result.error)
     THEN UNCHANGED <<articles, calls, pending>>
     ELSE /\ pending' = pending - 1
          /\ articles' = articles \o result.response.items
          /\ calls' = IF RespondNow(pending') THEN respond(articles') ELSE calls
  /\ UNCHANGED <<config, other, pc, sent>>

\* Mutant of sourceCallback: a failed request is issued again.
sourceCallbackRetries(i, result) ==
  IF Truthy(result.error)
  THEN /\ sent' = [sent EXCEPT ![i] = @ + 1]
       /\ UNCHANGED <<config, other, pc, query, pending, articles, calls>>
  ELSE /\ pending' = pending - 1
       /\ query' = [query EXCEPT ![i] = Settled(result)]
       /\ articles' = articles \o result.response.items
       /\ calls' = IF RespondNow(pending') THEN respond(articles') ELSE calls
       /\ UNCHANGED <<config, other, pc, sent>>

\* Mutant of sourceCallback: the response merged in front of the list.
sourceCallbackPrepends(i, result) ==
  /\ pending' = pending - 1
  /\ query' = [query EXCEPT ![i] = Settled(result)]
  /\ IF Truthy(result.error)
     THEN UNCHANGED <<articles, calls>>
     ELSE /\ articles' = result.response.items \o articles
          /\ calls' = IF RespondNow(pending') THEN respond(articles') ELSE calls
  /\ UNCHANGED <<config, other, pc, sent>>

\* The callback getNews gives searchForArticlesFromSource, run for source
\* number i with (error, response).
sourceCallback(i, result) ==
  /\ pending' = pending - 1
  /\ query' = [query EXCEPT ![i] = Settled(result)]
  /\ IF Truthy(result.error)
     THEN UNCHANGED <<articles, calls>>
     ELSE /\ articles' = articles \o result.response.items
          /\ calls' = IF RespondNow(pending') THEN respond(articles') ELSE calls
  /\ UNCHANGED <<config, other, pc, sent>>

\* The callback searchForArticlesFromSource gives request(url, ...), run
\* for source number i with the outcome (error, response) of the request.
requestCallback(i, outcome) ==
  /\ query[i].state = "pending"
  /\ received' = [received EXCEPT ![i] = outcome]
  /\ sourceCallback(i, searchForArticlesFromSource(sources[i], outcome))

\* The request of source number i ends with a transport error.
requestError(i) ==
  requestCallback(i, [error |-> "ETIMEDOUT", body |-> NoValue])

\* The request of source number i ends with a payload whose status is not ok.
requestBadStatus(i) ==
  requestCallback(i, [error |-> Undefined,
                      body |-> [status |-> "error", articles |-> <<>>]])

\* The request of source number i ends with an ok payload.
requestOk(i) ==
  \E body \in Payloads(i) :
    requestCallback(i, [error |-> Undefined, body |-> body])

Next ==
  \/ getNewsThrows
  \/ getNews
  \/ \E i \in DOMAIN sources : requestError(i)
  \/ \E i \in DOMAIN sources : requestBadStatus(i)
  \/ \E i \in DOMAIN sources : requestOk(i)

Spec == Init /\ [][Next]_vars

\* ------------------------------------- three sources, priority [B, A, C]
\* config.sources naming the second source first, then the first and third.
ScenarioPriority == <<Source(2).id, Source(1).id, Source(3).id>>

\* Sources A, B and C configured, with the priority list [B, A, C].
InitScenario ==
  /\ apiKey \in BOOLEAN
  /\ sources = SourceList(Len(ScenarioPriority))
  /\ maxArticles \in 0..MaxCap
  /\ configSources = ScenarioPriority
  /\ pc = "idle"
  /\ articles = <<>>
  /\ pending = 0
  /\ query = [i \in DOMAIN sources |-> NotSent]
  /\ calls = <<>>
  /\ sent = [i \in DOMAIN sources |-> 0]
  /\ received = [i \in DOMAIN sources |-> NoOutcome]
  /\ other = NotCalled

SpecScenario == InitScenario /\ [][Next]_vars

\* ------------------------------------------------ two calls of getNews
\* The first call's variables.
first == <<pc, articles, pending, query, calls, sent, received>>

\* The second call of getNews: its own articles and pending (news.js:22-23).
getNewsOther ==
  /\ other.pc = "idle"
  /\ apiKey
  /\ other' = [other EXCEPT !.pc = "dispatched",
                            !.articles = <<>>,
                            !.pending = Len(sources),
                            !.query = [i \in DOMAIN sources |-> InFlight]]
  /\ UNCHANGED <<config, first>>

\* Mutant of sourceCallbackOther: articles and pending shared by both calls,
\* as if declared at module level.
sourceCallbackOtherShared(i, result) ==
  /\ pending' = pending - 1
  /\ IF Truthy(result.error)
     THEN /\ other' = [other EXCEPT !.query[i] = Settled(result)]
          /\ UNCHANGED articles
     ELSE /\ articles' = articles \o result.response.items
          /\ other' = [other EXCEPT
               !.query[i] = Settled(result),
               !.calls = IF RespondNow(pending')
                         THEN Append(@, reduceArticles(articles'))
                         ELSE @]
  /\ UNCHANGED <<config, pc, query, calls, sent, received>>

\* The completion callback of the second call, run for source number i with
\* (error, response): news.js:28-37 on the second call's closure.
sourceCallbackOther(i, result) ==
  /\ IF Truthy(result.error)
     THEN other' = [other EXCEPT !.pending = @ - 1,
                                 !.query[i] = Settled(result)]
     ELSE LET merged == other.articles \o result.response.items
          IN other' = [other EXCEPT
               !.pending = @ - 1,
               !.query[i] = Settled(result),
               !.articles = merged,
               !.calls = IF RespondNow(other.pending - 1)
                         THEN Append(@, reduceArticles(merged))
                         ELSE @]
  /\ UNCHANGED <<config, first>>

\* The payloads source number i returns to the second call: later entries.
PayloadsOther(i) ==
  { [status |-> "ok",
     articles |-> [k \in 1..n |-> Entry(i, MaxEntries + k, ks[k])]] :
      ks \in [1..MaxEntries -> EntryKinds], n \in 0..MaxEntries }

\* A request of the second call ends with a transport error.
requestErrorOther(i) ==
  /\ other.query[i].state = "pending"
  /\ sourceCallbackOther(i, searchForArticlesFromSource(sources[i],
                              [error |-> "ETIMEDOUT", body |-> NoValue]))

\* A request of the second call ends with an ok payload.
requestOkOther(i) ==
  /\ other.query[i].state = "pending"
  /\ \E body \in PayloadsOther(i) :
       sourceCallbackOther(i, searchForArticlesFromSource(sources[i],
                                [error |-> Undefined, body |-> body]))

\* One source configured and the API key present.
InitTwoCalls == Init /\ apiKey /\ Len(sources) = 1

NextTwoCalls ==
  \/ getNews
  \/ \E i \in DOMAIN sources : requestError(i)
  \/ \E i \in DOMAIN sources : requestBadStatus(i)
  \/ \E i \in DOMAIN sources : requestOk(i)
  \/ getNewsOther
  \/ \E i \in DOMAIN sources : requestErrorOther(i)
  \/ \E i \in DOMAIN sources : requestOkOther(i)

SpecTwoCalls == InitTwoCalls /\ [][NextTwoCalls]_vars

\* ------------------------------------------- Source Query, every entry kind
\* The request of source number i ends with an ok payload whose entries are
\* of any kind.
requestOkWide(i) ==
  \E body \in PayloadsOver(i, WideEntryKinds) :
    requestCallback(i, [error |-> Undefined, body |-> body])

\* At most one source configured.
InitFilter == Init /\ Len(sources) <= 1

NextFilter ==
  \/ getNewsThrows
  \/ getNews
  \/ \E i \in DOMAIN sources : requestError(i)
  \/ \E i \in DOMAIN sources : requestBadStatus(i)
  \/ \E i \in DOMAIN sources : requestOkWide(i)

SpecFilter == InitFilter /\ [][NextFilter]_vars

\* ------------------------------------------------------------ properties
Dispatched == pc = "dispatched"

IsSettled(i) == query[i].state = "settled"
Succeeded(i) == IsSettled(i) /\ ~Truthy(query[i].error)
Failed(i)    == IsSettled(i) /\ Truthy(query[i].error)

AllSettled == \A i \in DOMAIN sources : IsSettled(i)

Called == Len(calls) >= 1

IsArray(v) == v.type = "array"

Range(s) == {s[k] : k \in DOMAIN s}

\* The matched articles source number i handed over; none if it failed.
Matched(i) == IF Succeeded(i) THEN query[i].response.items ELSE <<>>

\* The number of matched articles of all the sources that succeeded.
RECURSIVE TotalMatched(_)
TotalMatched(n) == IF n = 0 THEN 0 ELSE Len(Matched(n)) + TotalMatched(n - 1)

\* The article originates from the source whose id is `id`.
OriginatesFrom(art, id) ==
  \E k \in 1..Len(IdPool) : IdPool[k] = id /\ NamePool[k] = art.source

\* The article belongs to a source of the priority list.
InPriorityList(art) == \E i \in DOMAIN configSources : OriginatesFrom(art, configSources[i])

RECURSIVE SelectFrom(_, _)
\* The articles of `arts` originating from source `id`, in their given order.
SelectFrom(arts, id) ==
  IF arts = <<>> THEN <<>>
  ELSE IF OriginatesFrom(Head(arts), id)
       THEN <<Head(arts)>> \o SelectFrom(Tail(arts), id)
       ELSE SelectFrom(Tail(arts), id)

RECURSIVE WalkOrder(_, _)
\* The priority double walk without a cap: sources in priority order from
\* position i on, each source's articles in their given order.
WalkOrder(arts, i) ==
  IF i > Len(configSources) THEN <<>>
  ELSE SelectFrom(arts, configSources[i]) \o WalkOrder(arts, i + 1)

\* The first n items of s.
Take(s, n) == SubSeq(s, 1, IF n < Len(s) THEN n ELSE Len(s))

\* C1: once the last outstanding query of a non-empty source set has settled,
\* whether it succeeded or failed, the caller's callback has been invoked (the
\* handler of the last completion is the one that responds).
C1_LastSettledThenCallback ==
  (Dispatched /\ Len(sources) > 0 /\ AllSettled) => Called

\* C2: whenever the caller's callback has been invoked, every dispatched
\* query has already settled.
C2_NoCallbackWhilePending == Called => AllSettled

\* C2 witness: two sources, one failed and one succeeded, and the callback
\* has been invoked.
C2_Witness ==
  /\ Len(sources) >= 2
  /\ Called
  /\ \E i, j \in DOMAIN sources : Failed(i) /\ Succeeded(j)

\* C3: once every query has settled and at least one source succeeded with
\* a matched article, the callback has been invoked whatever the other sources
\* did, and if the matched articles number at most the cap the delivered list
\* holds exactly the matched articles of the sources that succeeded.
C3_PartialFailureIsolation ==
  (Dispatched /\ AllSettled
     /\ \E i \in DOMAIN sources : Succeeded(i) /\ Matched(i) # <<>>) =>
    /\ Called
    /\ TotalMatched(Len(sources)) <= maxArticles =>
         /\ IsArray(calls[1])
         /\ Range(calls[1].items) = UNION {Range(Matched(i)) : i \in DOMAIN sources}

\* C4: the callback is never invoked twice, and once every query of a
\* non-empty source set has settled it has been invoked exactly once, with the
\* reduction of the complete merged list.
C4_CallbackExactlyOnce ==
  /\ Len(calls) <= 1
  /\ (Dispatched /\ Len(sources) > 0 /\ AllSettled) =>
       /\ Len(calls) = 1
       /\ calls[1] = reduceArticles(articles)
       /\ Len(articles) = TotalMatched(Len(sources))

\* C5: with zero sources configured, getNews delivers an empty list to the
\* callback as soon as it has run.
C5_ZeroSourcesEmptyList ==
  (Dispatched /\ Len(sources) = 0) => calls = <<Array(<<>>)>>

\* C6: when every source of a non-empty source set has failed, the callback
\* has been invoked with an empty list.
C6_AllFailedEmptyList ==
  (Dispatched /\ Len(sources) > 0 /\ \A i \in DOMAIN sources : Failed(i)) =>
    calls = <<Array(<<>>)>>

\* C7: when the merged list holds at most cap articles, reduceArticles
\* returns that list, same articles in the same order: for the list the
\* callback was given and for every merged list a run builds.
C7_IdentityUnderCap ==
  Len(articles) <= maxArticles =>
    /\ reduceArticles(articles) = Array(articles)
    /\ Called => calls[1] = Array(articles)

\* C7 witness: the callback received a non-empty list of at most cap
\* articles, none of which belongs to a source of the priority list.
C7_Witness ==
  /\ Called
  /\ articles # <<>>
  /\ Len(articles) <= maxArticles
  /\ \A k \in DOMAIN articles : ~InPriorityList(articles[k])

\* C8 as stated: a returned list has at most cap items, and exactly cap items
\* only when at least cap candidates belong to sources of the priority list.
C8_AtMostCapEqualityOnlyIfEnough ==
  LET r == reduceArticles(articles)
  IN IsArray(r) =>
       /\ Len(r.items) <= maxArticles
       /\ Len(r.items) = maxArticles =>
            Cardinality({k \in DOMAIN articles : InPriorityList(articles[k])})
              >= maxArticles

\* C8 amended: a returned list has at most cap items, and when the candidates
\* number more than cap it has exactly cap items only when at least cap
\* candidates belong to sources of the priority list.
C8_AtMostCap ==
  LET r == reduceArticles(articles)
  IN /\ IsArray(r) =>
          /\ Len(r.items) <= maxArticles
          /\ (Len(articles) > maxArticles /\ Len(r.items) = maxArticles) =>
               Cardinality({k \in DOMAIN articles : InPriorityList(articles[k])})
                 >= maxArticles
     /\ \A c \in DOMAIN calls : IsArray(calls[c]) => Len(calls[c].items) <= maxArticles

\* C8 witness: more candidates than the cap, and the callback received a
\* list of exactly cap items.
C8_Witness ==
  /\ Called
  /\ Len(articles) > maxArticles
  /\ IsArray(calls[1])
  /\ Len(calls[1].items) = maxArticles

\* C9: with cap = 0 the callback receives an empty list, whatever the
\* candidates and the priority list.
C9_CapZeroEmptyList ==
  (maxArticles = 0 /\ Called) => calls[1] = Array(<<>>)

\* C10: when the candidates number more than a cap of at least one and at
\* least cap of them belong to sources of the priority list, the callback
\* receives the first cap articles of the priority double walk: sources in
\* priority order, each source's articles in their given order.
C10_FirstCapOfPriorityWalk ==
  (Called /\ maxArticles > 0 /\ Len(articles) > maxArticles
     /\ Len(WalkOrder(articles, 1)) >= maxArticles) =>
    calls[1] = Array(Take(WalkOrder(articles, 1), maxArticles))

\* C13: with no API key, getNews ends in the thrown error, no source query is
\* ever dispatched and the caller's callback is never invoked.
C13_NoKeyNoDispatchNoCallback ==
  ~apiKey =>
    /\ pc \in {"idle", "thrown"}
    /\ \A i \in DOMAIN sources : query[i].state = "none"
    /\ calls = <<>>

\* C13 witness: getNews has thrown with sources configured.
C13_Witness == ~apiKey /\ pc = "thrown" /\ Len(sources) >= 1

\* C15: in every state the merged list holds, for each source, all of its
\* matched articles if it completed successfully and none otherwise, and
\* nothing else; and pending equals the number of dispatched queries that
\* have not settled.
C15_AtomicAppendsExactCounter ==
  /\ pending = Cardinality({i \in DOMAIN sources : query[i].state = "pending"})
  /\ \A i \in DOMAIN sources : SelectFrom(articles, sources[i].id) = Matched(i)
  /\ Len(articles) = TotalMatched(Len(sources))

\* C15 witness: one source has completed with two matched articles, another
\* query is still pending.
C15_Witness ==
  \E i, j \in DOMAIN sources :
    /\ Succeeded(i) /\ Len(Matched(i)) >= 2
    /\ query[j].state = "pending"

\* C16: when the candidates number more than cap and fewer than cap of them
\* belong to sources of the priority list, the callback receives the list the
\* priority walk collected, a list of fewer than cap items.
C16_ShortWalkReturnsCollected ==
  (Called /\ Len(articles) > maxArticles
     /\ Len(WalkOrder(articles, 1)) < maxArticles) =>
    calls[1] = Array(WalkOrder(articles, 1))

\* C19: when the candidates number more than cap, no article of a source
\* absent from the priority list is in what the callback receives.
C19_NoUnlistedSourceInResult ==
  (Called /\ Len(articles) > maxArticles /\ IsArray(calls[1])) =>
    \A k \in DOMAIN calls[1].items : InPriorityList(calls[1].items[k])

\* C19 witness: more candidates than cap, one of them of a source absent from
\* a non-empty priority list, and the callback has received a list.
C19_Witness ==
  /\ Called
  /\ IsArray(calls[1])
  /\ Len(articles) > maxArticles
  /\ configSources # <<>>
  /\ \E k \in DOMAIN articles : ~InPriorityList(articles[k])

\* The text is present and satisfies the predicate.
Satisfies(text) == text # Undefined /\ PatternTest(text)

\* C12: an entry of an ok payload is in the source query's output list if
\* and only if its title or its description satisfies the predicate, a missing
\* one counting as a non-match; an ok payload never yields an error; and every
\* article of the merged list satisfies the predicate on its title or its
\* description.
C12_IncludedIffMatches ==
  /\ \A i \in DOMAIN sources :
       (IsSettled(i) /\ ~Truthy(received[i].error)
          /\ received[i].body.status = "ok") =>
         /\ Succeeded(i)
         /\ \A k \in DOMAIN received[i].body.articles :
              LET entry == received[i].body.articles[k]
              IN (\E m \in DOMAIN Matched(i) : Matched(i)[m].link = entry.url)
                   <=> (Satisfies(entry.title) \/ Satisfies(entry.description))
  /\ \A k \in DOMAIN articles :
       Satisfies(articles[k].title) \/ Satisfies(articles[k].description)

\* C12 witness: one payload held an entry matching on its description only,
\* with no title, and an entry matching on neither; the first is in the merged
\* list.
C12_Witness ==
  \E i \in DOMAIN sources :
    /\ Succeeded(i)
    /\ \E k, n \in DOMAIN received[i].body.articles :
         LET e1 == received[i].body.articles[k]
             e2 == received[i].body.articles[n]
         IN /\ e1.title = Undefined /\ e1.description = HitText
            /\ e2.title = MissText /\ e2.description = Undefined
            /\ \E m \in DOMAIN articles : articles[m].link = e1.url

C17_MergedInCompletionOrder ==
  [][\A i \in DOMAIN sources :
       (query[i].state = "pending" /\ query'[i].state = "settled") =>
         IF Truthy(query'[i].error)
         THEN articles' = articles
         ELSE /\ articles' = articles \o query'[i].response.items
              /\ \A m, n \in DOMAIN query'[i].response.items :
                   m < n => query'[i].response.items[m].link[2]
                              < query'[i].response.items[n].link[2]]_vars

\* C17 witness: two sources completed successfully, the second source of the
\* list first, and its articles come first in the merged list.
C17_Witness ==
  /\ Len(sources) >= 2
  /\ Succeeded(1) /\ Succeeded(2)
  /\ Len(Matched(1)) >= 2 /\ Len(Matched(2)) >= 1
  /\ articles = Matched(2) \o Matched(1)

\* C18: once getNews has dispatched, exactly one request has been issued for
\* every source, whether its query is pending, succeeded or failed; before
\* that, none.
C18_EachSourceQueriedOnce ==
  \A i \in DOMAIN sources : sent[i] = IF Dispatched THEN 1 ELSE 0

\* C18 witness: every query has settled, one of them failed.
C18_Witness ==
  /\ Len(sources) >= 2
  /\ AllSettled
  /\ \E i \in DOMAIN sources : Failed(i) /\ sent[i] = 1

\* C11: with sources A, B, C, cap 2 and priority [B, A, C], once A has
\* returned two matches, B one match and C has failed, in whatever order, the
\* callback has been invoked once, with B's article followed by A's first.
C11_ScenarioBThenA ==
  (/\ Dispatched
   /\ Len(sources) = 3 /\ maxArticles = 2 /\ configSources = ScenarioPriority
   /\ Succeeded(1) /\ Len(Matched(1)) = 2
   /\ Succeeded(2) /\ Len(Matched(2)) = 1
   /\ Failed(3)) =>
    calls = <<Array(<<Matched(2)[1], Matched(1)[1]>>)>>

\* The articles source query number i of the second call handed over.
MatchedOther(i) ==
  IF other.query[i].state = "settled" /\ ~Truthy(other.query[i].error)
  THEN other.query[i].response.items ELSE <<>>

\* C20: with two calls of getNews in flight, each call's merged list holds
\* exactly the articles returned to its own queries and its pending counts its
\* own unsettled queries; each callback is invoked only once its own queries
\* have all settled, is invoked when they have all succeeded, and receives
\* only articles of its own queries.
C20_TwoCallsDoNotInterfere ==
  /\ Range(articles) = UNION {Range(Matched(i)) : i \in DOMAIN sources}
  /\ Range(other.articles) = UNION {Range(MatchedOther(i)) : i \in DOMAIN sources}
  /\ pending = Cardinality({i \in DOMAIN sources : query[i].state = "pending"})
  /\ other.pending =
       Cardinality({i \in DOMAIN sources : other.query[i].state = "pending"})
  /\ Called => AllSettled
  /\ other.calls # <<>> =>
       \A i \in DOMAIN sources : other.query[i].state = "settled"
  /\ (Dispatched /\ \A i \in DOMAIN sources : Succeeded(i)) => Len(calls) = 1
  /\ (other.pc = "dispatched" /\ \A i \in DOMAIN sources :
        other.query[i].state = "settled" /\ ~Truthy(other.query[i].error)) =>
       Len(other.calls) = 1
  /\ \A c \in DOMAIN calls : IsArray(calls[c]) =>
       Range(calls[c].items) \subseteq UNION {Range(Matched(i)) : i \in DOMAIN sources}
  /\ \A c \in DOMAIN other.calls : IsArray(other.calls[c]) =>
       Range(other.calls[c].items)
         \subseteq UNION {Range(MatchedOther(i)) : i \in DOMAIN sources}

\* C20 witness: the second call's callback has received a non-empty list
\* while a query of the first call is still pending.
C20_Witness ==
  /\ Dispatched
  /\ \E i \in DOMAIN sources : query[i].state = "pending"
  /\ Len(other.calls) = 1
  /\ IsArray(other.calls[1])
  /\ other.calls[1].items # <<>>

====
